---- MODULE Spec2Model ----
(***************************************************************************)
(* Model of the per-user conversion session machine of RapidFileConvertBot *)
(* (src/bot.py): the session store USER_ACTIONS, the fallback store        *)
(* USER_TEMP, the temporary directories made by ensure_tempdir and removed *)
(* by cleanup_dir, and the handlers that the application registers.        *)
(*                                                                         *)
(* The application is built with ApplicationBuilder().token(TOKEN).build() *)
(* (bot.py:583), i.e. without concurrent updates, and the conversion       *)
(* engines are plain synchronous calls inside the coroutines, so one       *)
(* handler runs to its end before the next update is dispatched: every     *)
(* handler is one action.  The file transfer from the transport and the    *)
(* text notifications are taken to succeed; the conversion engine and the  *)
(* delivery of the result file may raise.                                  *)
(***************************************************************************)
EXTENDS Integers, Sequences, FiniteSets, TLC

\* ---------------------------------------------------------------- bounds
MaxWs == 3          \* temporary directories created in one run of Spec
MaxPairWs == 4      \* temporary directories created in one run of SpecPair
MaxDeclare == 2     \* declarations of one user not yet followed by an engine call
MaxStored == 1      \* documents kept in USER_TEMP for one user

\* ------------------------------------------------------------- constants
MAX_UPLOAD_MB == 50
MAX_INIT_RETRIES == 6
INIT_BACKOFF == 2

Users == {"u1", "u2"}

\* the users whose updates Spec delivers
Driven == {"u1"}

SingleIntents ==
  {"pdf_to_word", "docx_to_pdf", "pdf_to_jpg", "jpg_to_pdf",
   "compress", "png_to_jpg", "jpg_to_png"}

Intents == SingleIntents \cup {"merge"}

\* callback_data values that reach menu_callback
MenuCmds ==
  Intents \cup {"merge_now", "cancel_action", "help", "status", "open_menu", "bogus"}

\* phrases offered to text_command_router
Phrases ==
  {"pdf to word", "pdf to jpg", "jpg to pdf", "png to jpg", "jpg to png",
   "docx to pdf", "merge", "compress", "menu", "hello"}

\* file names are sequences of characters
a_pdf   == <<"a", ".", "p", "d", "f">>
B_PDF   == <<"B", ".", "P", "D", "F">>
c_docx  == <<"c", ".", "d", "o", "c", "x">>
d_png   == <<"d", ".", "p", "n", "g">>

FileNames == {a_pdf, B_PDF, c_docx, d_png}

\* further names, offered to the extension checks by SpecValidate
e_doc     == <<"e", ".", "d", "o", "c">>
F_JPG     == <<"F", ".", "J", "P", "G">>
g_jpeg    == <<"g", ".", "j", "p", "e", "g">>
h_bmp     == <<"h", ".", "b", "m", "p">>
I_TIFF    == <<"i", ".", "T", "i", "F", "f">>
j_txt     == <<"j", ".", "t", "x", "t">>
k_tif     == <<"k", ".", "t", "i", "f">>
pdf_bare  == <<"p", "d", "f">>
dot_pdf   == <<".", "p", "d", "f">>
a_pdf_txt == <<"a", ".", "p", "d", "f", ".", "t", "x", "t">>
docxpdf   == <<"d", "o", "c", "x", ".", "p", "d", "f">>

\* <<>> stands for a document without a file name
ValidateNames ==
  FileNames \cup {e_doc, F_JPG, g_jpeg, h_bmp, I_TIFF, j_txt, k_tif, pdf_bare,
                  dot_pdf, a_pdf_txt, docxpdf, <<>>}

\* sizes in bytes on both sides of the limit
Sizes == {52428800, 52428801}

\* how a conversion attempt ends: the engine and the delivery succeed, the
\* engine raises, or the delivery of the result raises
Outcomes == {"ok", "engine_raises", "send_raises"}

\* the field of the update that carries the message.  The command, document
\* and photo handlers are registered without an update-type filter, so they
\* also get the update of an edited message, whose update.message is None.
UpdateTypes == {"message", "edited_message"}

NoSession == [action |-> "none"]
NoCall == [fn |-> "none"]

\* ------------------------------------------------------- string helpers
UpperChars == <<"A","B","C","D","E","F","G","H","I","J","K","L","M",
                "N","O","P","Q","R","S","T","U","V","W","X","Y","Z">>
LowerChars == <<"a","b","c","d","e","f","g","h","i","j","k","l","m",
                "n","o","p","q","r","s","t","u","v","w","x","y","z">>

lower_char(c) ==
  IF \E i \in 1..Len(UpperChars) : UpperChars[i] = c
  THEN LowerChars[CHOOSE i \in 1..Len(UpperChars) : UpperChars[i] = c]
  ELSE c

lower_identity(s) == s

\* str.lower()
lower(s) == [i \in 1..Len(s) |-> lower_char(s[i])]

\* str.endswith(suffix)
endswith(s, suffix) ==
  /\ Len(suffix) <= Len(s)
  /\ SubSeq(s, Len(s) - Len(suffix) + 1, Len(s)) = suffix

ext_pdf  == <<".", "p", "d", "f">>
ext_docx == <<".", "d", "o", "c", "x">>
ext_doc  == <<".", "d", "o", "c">>
ext_jpg  == <<".", "j", "p", "g">>
ext_jpeg == <<".", "j", "p", "e", "g">>
ext_png  == <<".", "p", "n", "g">>
ext_bmp  == <<".", "b", "m", "p">>
ext_tiff == <<".", "t", "i", "f", "f">>

ImageExts == {ext_jpg, ext_jpeg, ext_png, ext_bmp, ext_tiff}

\* str(dest) for dest = tempdir / fname
path_str(dest) == <<"/tmp/tgfilebot_", ToString(dest.dir), "/">> \o dest.name

\* str(dest).lower().endswith(ext)
has_ext(dest, ext) == endswith(lower(path_str(dest)), ext)

\* bytes_to_mb(size_bytes) > MAX_UPLOAD_MB; the division by 2^20 is exact
too_large(size_bytes) == size_bytes > MAX_UPLOAD_MB * (1024 * 1024)

\* ------------------------------------------------------------ the state
VARIABLES
  USER_ACTIONS,   \* dict user -> pending action
  USER_TEMP,      \* dict user -> list of stored fallback uploads
  workspaces,     \* temporary directories that exist
  nextWs,         \* number of directories made by ensure_tempdir so far
  usage,          \* rows of the usage table per user
  unconsumed,     \* per user: intent declarations minus conversion engine calls
  accepted,       \* per user: uploads answered "PDF saved" since the last declaration
  lastEvent,      \* what the handler of the most recent update did
  cleanups,       \* the directories the most recent handler passed to cleanup_dir,
                  \* in call order
  inflight,       \* the handlers that are inside a conversion engine call
  boot            \* where main is: the phase, the failed initialize attempts so
                  \* far, and the waits slept between attempts

vars == <<USER_ACTIONS, USER_TEMP, workspaces, nextWs, usage, unconsumed,
          accepted, lastEvent, cleanups, inflight, boot>>

\* ------------------------------------------------------- dict helpers
\* d.get(k)
dict_get(d, k) == IF k \in DOMAIN d THEN d[k] ELSE NoSession

\* d[k] = v
dict_set(d, k, v) == [x \in DOMAIN d \cup {k} |-> IF x = k THEN v ELSE d[x]]

dict_pop_keep(d, k) == d

\* d.pop(k, None)
dict_pop(d, k) == [x \in DOMAIN d \ {k} |-> d[x]]

\* the list that USER_TEMP.setdefault(user_id, []) yields
stored_of(temp, u) == IF u \in DOMAIN temp THEN temp[u] ELSE <<>>

\* action.get("files", [])
files_of(action) == IF "files" \in DOMAIN action THEN action.files ELSE <<>>

\* ------------------------------------------------------- workspaces
cleanup_dir_all(ws, p) == {}

\* shutil.rmtree(p), errors swallowed: removing a missing directory is a no-op
cleanup_dir(ws, p) == ws \ {p}


\* ensure_tempdir(): the next fresh directory
ensure_tempdir(next) == next + 1

photo_jpg == <<"p", "h", "o", "t", "o", "_", "x", ".", "j", "p", "g">>
default_name == <<"f", "i", "l", "e", "_", "x">>
\* no file; directory numbers start at 1, 0 stands for no directory
NoDest == [dir |-> 0, name |-> <<>>]

\* ------------------------------------------------- intent declaration
set_intent_keep_files(actions, u, kind) ==
  dict_set(actions, u,
           IF kind = "merge"
           THEN [action |-> "merge", files |-> files_of(dict_get(actions, u))]
           ELSE [action |-> kind])

\* USER_ACTIONS[uid] = {"action": kind}  /  {"action": "merge", "files": []}
set_intent(actions, u, kind) ==
  dict_set(actions, u,
           IF kind = "merge" THEN [action |-> "merge", files |-> <<>>]
                             ELSE [action |-> kind])

\* the mapping of text_command_router
phrase_target(t) ==
  CASE t = "pdf to word" -> "pdf_to_word"
    [] t = "pdf to jpg"  -> "pdf_to_jpg"
    [] t = "jpg to pdf"  -> "jpg_to_pdf"
    [] t = "png to jpg"  -> "png_to_jpg"
    [] t = "jpg to png"  -> "jpg_to_png"
    [] t = "docx to pdf" -> "docx_to_pdf"
    [] t = "merge"       -> "merge"
    [] t = "compress"    -> "compress"
    [] t = "menu"        -> "menu"
    [] OTHER             -> "ignored"

\* ------------------------------------------------- single-file uploads
document_accepts_docx_only(act, dest) ==
  CASE act = "pdf_to_word" -> has_ext(dest, ext_pdf)
    [] act = "docx_to_pdf" -> has_ext(dest, ext_docx)
    [] act = "pdf_to_jpg"  -> has_ext(dest, ext_pdf)
    [] act = "jpg_to_pdf"  -> \E ext \in ImageExts : has_ext(dest, ext)
    [] act = "png_to_jpg"  -> \E ext \in ImageExts : has_ext(dest, ext)
    [] act = "jpg_to_png"  -> \E ext \in ImageExts : has_ext(dest, ext)
    [] act = "compress"    -> has_ext(dest, ext_pdf)
    [] OTHER               -> FALSE

\* the extension test of each branch of handle_document
document_accepts(act, dest) ==
  CASE act = "pdf_to_word" -> has_ext(dest, ext_pdf)
    [] act = "docx_to_pdf" -> has_ext(dest, ext_docx) \/ has_ext(dest, ext_doc)
    [] act = "pdf_to_jpg"  -> has_ext(dest, ext_pdf)
    [] act = "jpg_to_pdf"  -> \E ext \in ImageExts : has_ext(dest, ext)
    [] act = "png_to_jpg"  -> \E ext \in ImageExts : has_ext(dest, ext)
    [] act = "jpg_to_png"  -> \E ext \in ImageExts : has_ext(dest, ext)
    [] act = "compress"    -> has_ext(dest, ext_pdf)
    [] OTHER               -> FALSE

document_engine_swapped(act) ==
  CASE act = "pdf_to_word" -> [fn |-> "pdf_to_word", fmt |-> "none"]
    [] act = "docx_to_pdf" -> [fn |-> "docx_to_pdf_libreoffice", fmt |-> "none"]
    [] act = "pdf_to_jpg"  -> [fn |-> "pdf_to_images", fmt |-> "none"]
    [] act = "jpg_to_pdf"  -> [fn |-> "images_to_pdf", fmt |-> "none"]
    [] act = "png_to_jpg"  -> [fn |-> "convert_image_format", fmt |-> "PNG"]
    [] act = "jpg_to_png"  -> [fn |-> "convert_image_format", fmt |-> "JPEG"]
    [] act = "compress"    -> [fn |-> "compress_pdf_basic", fmt |-> "none"]
    [] OTHER               -> NoCall

\* the converter each branch of handle_document calls
document_engine(act) ==
  CASE act = "pdf_to_word" -> [fn |-> "pdf_to_word", fmt |-> "none"]
    [] act = "docx_to_pdf" -> [fn |-> "docx_to_pdf_libreoffice", fmt |-> "none"]
    [] act = "pdf_to_jpg"  -> [fn |-> "pdf_to_images", fmt |-> "none"]
    [] act = "jpg_to_pdf"  -> [fn |-> "images_to_pdf", fmt |-> "none"]
    [] act = "png_to_jpg"  -> [fn |-> "convert_image_format", fmt |-> "JPEG"]
    [] act = "jpg_to_png"  -> [fn |-> "convert_image_format", fmt |-> "PNG"]
    [] act = "compress"    -> [fn |-> "compress_pdf_basic", fmt |-> "none"]
    [] OTHER               -> NoCall

\* the converter each branch of handle_photo calls
photo_engine(act) ==
  CASE act = "jpg_to_pdf"  -> [fn |-> "images_to_pdf", fmt |-> "none"]
    [] act = "jpg_to_png"  -> [fn |-> "convert_image_format", fmt |-> "PNG"]
    [] act = "png_to_jpg"  -> [fn |-> "convert_image_format", fmt |-> "JPEG"]
    [] OTHER               -> NoCall

except_exception_none(outcome) == FALSE

\* "except Exception": what the engines and the delivery raise (RuntimeError,
\* OSError, subprocess.CalledProcessError, subprocess.TimeoutExpired, errors
\* of the PDF and image libraries and of the network) derives from Exception
except_exception(outcome) == outcome \in {"engine_raises", "send_raises"}

\* an engine call on the given inputs
engine_call(e, inputs) == [fn |-> e.fn, fmt |-> e.fmt, inputs |-> inputs]

\* the try block of handle_document (bot.py:419-502): the directories that
\* exist when the finally clause is reached, what was reported, and the
\* cleanup_dir calls made inside the block (cleaned)
document_try(act, dest, ws, next, outcome) ==
  LET out_dir == ensure_tempdir(next)
      made == ws \cup {out_dir}
  IN IF act \notin SingleIntents
     THEN [ws |-> ws, next |-> next, out_dir |-> 0, call |-> NoCall,
           notice |-> "Unknown action", delivered |-> FALSE, cleaned |-> <<>>,
           raised |-> "none"]
     ELSE IF ~document_accepts(act, dest)
     THEN [ws |-> cleanup_dir(ws, dest.dir), next |-> next, out_dir |-> 0,
           call |-> NoCall, notice |-> "Please upload", delivered |-> FALSE,
           cleaned |-> <<dest.dir>>, raised |-> "none"]
     ELSE IF outcome = "ok"
     THEN [ws |-> cleanup_dir(made, out_dir), next |-> out_dir, out_dir |-> out_dir,
           call |-> engine_call(document_engine(act), <<dest>>),
           notice |-> "converted", delivered |-> TRUE, cleaned |-> <<out_dir>>,
           raised |-> "none"]
     ELSE IF except_exception(outcome)
     THEN [ws |-> made, next |-> out_dir, out_dir |-> out_dir,
           call |-> engine_call(document_engine(act), <<dest>>),
           notice |-> "Conversion failed", delivered |-> FALSE, cleaned |-> <<>>,
           raised |-> "none"]
     ELSE [ws |-> made, next |-> out_dir, out_dir |-> out_dir,
           call |-> engine_call(document_engine(act), <<dest>>),
           notice |-> "none", delivered |-> FALSE, cleaned |-> <<>>,
           raised |-> outcome]

\* the try block of handle_photo (bot.py:525-549)
photo_try(act, dest, ws, next, outcome) ==
  LET out_dir == ensure_tempdir(next)
      made == ws \cup {out_dir}
  IN IF act \notin {"jpg_to_pdf", "jpg_to_png", "png_to_jpg"}
     THEN [ws |-> ws, next |-> next, out_dir |-> 0, call |-> NoCall,
           notice |-> "does not match", delivered |-> FALSE, cleaned |-> <<>>,
           raised |-> "none"]
     ELSE IF outcome = "ok"
     THEN [ws |-> cleanup_dir(made, out_dir), next |-> out_dir, out_dir |-> out_dir,
           call |-> engine_call(photo_engine(act), <<dest>>),
           notice |-> "converted", delivered |-> TRUE, cleaned |-> <<out_dir>>,
           raised |-> "none"]
     ELSE IF except_exception(outcome)
     THEN [ws |-> made, next |-> out_dir, out_dir |-> out_dir,
           call |-> engine_call(photo_engine(act), <<dest>>),
           notice |-> "Conversion failed", delivered |-> FALSE, cleaned |-> <<>>,
           raised |-> "none"]
     ELSE [ws |-> made, next |-> out_dir, out_dir |-> out_dir,
           call |-> engine_call(photo_engine(act), <<dest>>),
           notice |-> "none", delivered |-> FALSE, cleaned |-> <<>>,
           raised |-> outcome]

\* ------------------------------------------------------------- merging
merge_append_front(files, p) == <<p>> \o files

\* action_info.setdefault("files", []).append(str(dest))
merge_append(files, p) == Append(files, p)

merge_ready_one(pdf_paths) == ~(Len(pdf_paths) < 1)

\* the negation of "len(pdf_paths) < 2"
merge_ready(pdf_paths) == ~(Len(pdf_paths) < 2)

RECURSIVE cleanup_parents(_, _)
\* for p in pdf_paths: cleanup_dir(Path(p).parent)
cleanup_parents(ws, pdf_paths) ==
  IF pdf_paths = <<>> THEN ws
  ELSE cleanup_parents(cleanup_dir(ws, Head(pdf_paths).dir), Tail(pdf_paths))

merge_finally_out_only(ws, pdf_paths, out_dir) == cleanup_dir(ws, out_dir)

\* the directories left by the finally clause of merge_now
merge_finally(ws, pdf_paths, out_dir) ==
  cleanup_dir(cleanup_parents(ws, pdf_paths), out_dir)

\* the cleanup_dir calls of the finally clause of merge_now, in call order
merge_cleanups(pdf_paths, out_dir) ==
  Append([i \in 1..Len(pdf_paths) |-> pdf_paths[i].dir], out_dir)

\* merge_pdfs reads its inputs in list order
merge_pdfs(pdf_paths) == engine_call([fn |-> "merge_pdfs", fmt |-> "none"], pdf_paths)


\* ---------------------------------------------------------------- Init
\* no update has been handled yet
NoUpdatesYet ==
  /\ USER_ACTIONS = <<>>
  /\ USER_TEMP = <<>>
  /\ workspaces = {}
  /\ nextWs = 0
  /\ usage = [u \in Users |-> 0]
  /\ unconsumed = [u \in Users |-> 0]
  /\ accepted = [u \in Users |-> <<>>]
  /\ lastEvent = [user |-> "nobody", event |-> "none", cmd |-> "none",
                  pending |-> "none", dropped |-> <<>>, dest |-> NoDest, size |-> 0,
                  out_dir |-> 0, notice |-> "none", delivered |-> FALSE,
                  call |-> NoCall, count |-> 0, propagated |-> "none",
                  run |-> "none"]
  /\ cleanups = <<>>
  /\ inflight = {}

\* The handlers start from the state in which main has initialized the
\* application at its first attempt and is polling.
Init ==
  /\ NoUpdatesYet
  /\ boot = [phase |-> "polling", retries |-> 0, slept |-> <<>>]

\* The record of an update.  pending is the intent the handler found when
\* it looked the user up in USER_ACTIONS ("none" when it found nothing or did
\* not look); dropped is the file list of a session that the handler
\* overwrote or removed without reading it; count is the number a status
\* reply reports; propagated is the exception that left the handler; run is
\* the course the conversion took, where the handler was followed through it.
replied(u, event, cmd, pending, dropped, dest, size, notice) ==
  [user |-> u, event |-> event, cmd |-> cmd, pending |-> pending,
   dropped |-> dropped, dest |-> dest, size |-> size, out_dir |-> 0,
   notice |-> notice, delivered |-> FALSE, call |-> NoCall, count |-> 0,
   propagated |-> "none", run |-> "none"]

\* the record of an update whose handler reached a conversion branch
attempted(u, event, cmd, pending, dest, size, r) ==
  [user |-> u, event |-> event, cmd |-> cmd, pending |-> pending,
   dropped |-> <<>>, dest |-> dest, size |-> size, out_dir |-> r.out_dir,
   notice |-> r.notice, delivered |-> r.delivered, call |-> r.call, count |-> 0,
   propagated |-> r.raised, run |-> "none"]

\* INSERT INTO usage: one more row of user u
log_usage(rows, u) == [rows EXCEPT ![u] = @ + 1]

\* one engine call of user u is charged if r records a call
count_call(u, r) ==
  IF r.call = NoCall THEN unconsumed
  ELSE [unconsumed EXCEPT ![u] = @ - 1]

\* an intent declaration; the three routes (command, text phrase, menu
\* button) make the same assignment and are recorded alike
declare(u, kind) ==
  /\ unconsumed[u] < MaxDeclare
  /\ USER_ACTIONS' = set_intent(USER_ACTIONS, u, kind)
  /\ unconsumed' = [unconsumed EXCEPT ![u] = @ + 1]
  /\ accepted' = [accepted EXCEPT ![u] = <<>>]
  /\ lastEvent' = replied(u, "declare", kind, "none",
                          files_of(dict_get(USER_ACTIONS, u)), NoDest, 0, "selected")
  /\ cleanups' = <<>>
  /\ UNCHANGED <<USER_TEMP, workspaces, nextWs, usage>>

\* an update that only produces a reply or nothing (the menu, unknown
\* callback data, text that is no command phrase)
reply_only(u) ==
  /\ lastEvent' = replied(u, "info", "none", "none", <<>>, NoDest, 0, "none")
  /\ cleanups' = <<>>
  /\ UNCHANGED <<USER_ACTIONS, USER_TEMP, workspaces, nextWs, usage,
                 unconsumed, accepted>>

\* help_cmd or status called from menu_callback: both reply through
\* update.message, which is None for a callback query, so AttributeError
\* leaves the handler and nothing is sent
menu_reply_raises(u) ==
  /\ lastEvent' = [replied(u, "info", "none", "none", <<>>, NoDest, 0, "none")
                     EXCEPT !.propagated = "AttributeError"]
  /\ cleanups' = <<>>
  /\ UNCHANGED <<USER_ACTIONS, USER_TEMP, workspaces, nextWs, usage,
                 unconsumed, accepted>>

\* the /status command: SELECT COUNT(*) FROM usage WHERE user_id = ?
status(u) ==
  /\ lastEvent' = [replied(u, "status", "status", "none", <<>>, NoDest, 0,
                           "Your usage count")
                     EXCEPT !.count = usage[u]]
  /\ cleanups' = <<>>
  /\ UNCHANGED <<USER_ACTIONS, USER_TEMP, workspaces, nextWs, usage,
                 unconsumed, accepted>>

\* pdf_to_word_command .. merge_command
\* For an edited message the session is stored, then update.message.reply_text
\* raises AttributeError and no reply is sent.
intent_command(u, update_type, kind) ==
  IF update_type = "edited_message"
  THEN /\ unconsumed[u] < MaxDeclare
       /\ USER_ACTIONS' = set_intent(USER_ACTIONS, u, kind)
       /\ unconsumed' = [unconsumed EXCEPT ![u] = @ + 1]
       /\ accepted' = [accepted EXCEPT ![u] = <<>>]
       /\ lastEvent' = [replied(u, "declare", kind, "none",
                                files_of(dict_get(USER_ACTIONS, u)), NoDest, 0, "none")
                          EXCEPT !.propagated = "AttributeError"]
       /\ cleanups' = <<>>
       /\ UNCHANGED <<USER_TEMP, workspaces, nextWs, usage>>
  ELSE declare(u, kind)

text_command_router(u, t) ==
  LET target == phrase_target(t)
  IN IF target \in Intents THEN declare(u, target)
     ELSE reply_only(u)

no_merge_session_absent(action) == action = NoSession

\* "not action or action.get('action') != 'merge'"
no_merge_session(action) == action = NoSession \/ action.action # "merge"

\* the merge_now branch of menu_callback
merge_now(u) ==
  LET action == dict_get(USER_ACTIONS, u)
      pdf_paths == files_of(action)
      out_dir == ensure_tempdir(nextWs)
      r(outcome) == [out_dir |-> out_dir, call |-> merge_pdfs(pdf_paths),
                     notice |-> IF outcome = "ok" THEN "merged"
                                ELSE IF except_exception(outcome) THEN "Merge failed"
                                ELSE "none",
                     delivered |-> outcome = "ok",
                     raised |-> IF outcome = "ok" \/ except_exception(outcome)
                                THEN "none" ELSE outcome]
  IN IF no_merge_session(action)
     THEN /\ lastEvent' = replied(u, "merge_now", "merge_now", action.action, <<>>,
                                NoDest, 0, "No merge session")
          /\ cleanups' = <<>>
          /\ UNCHANGED <<USER_ACTIONS, USER_TEMP, workspaces, nextWs, usage,
                         unconsumed, accepted>>
     ELSE IF ~merge_ready(pdf_paths)
     THEN /\ lastEvent' = replied(u, "merge_now", "merge_now", action.action, <<>>,
                                NoDest, 0, "at least two")
          /\ cleanups' = <<>>
          /\ UNCHANGED <<USER_ACTIONS, USER_TEMP, workspaces, nextWs, usage,
                         unconsumed, accepted>>
     ELSE /\ nextWs' = out_dir
          /\ workspaces' = merge_finally(workspaces \cup {out_dir}, pdf_paths, out_dir)
          /\ cleanups' = merge_cleanups(pdf_paths, out_dir)
          /\ USER_ACTIONS' = dict_pop(USER_ACTIONS, u)
          /\ \E outcome \in Outcomes :
                /\ unconsumed' = count_call(u, r(outcome))
                /\ lastEvent' = attempted(u, "merge_now", "merge_now", action.action,
                                          NoDest, 0, r(outcome))
          /\ UNCHANGED <<USER_TEMP, usage, accepted>>

\* the cancel_action branch of menu_callback
cancel_action(u) ==
  /\ USER_ACTIONS' = dict_pop(USER_ACTIONS, u)
  /\ lastEvent' = replied(u, "cancel", "cancel_action", "none",
                          files_of(dict_get(USER_ACTIONS, u)), NoDest, 0, "cancelled")
  /\ cleanups' = <<>>
  /\ UNCHANGED <<USER_TEMP, workspaces, nextWs, usage, unconsumed, accepted>>

menu_callback(u, cmd) ==
  IF cmd \in {"help", "status"} THEN menu_reply_raises(u)
  ELSE IF cmd = "open_menu" THEN reply_only(u)
  ELSE IF cmd \in Intents THEN declare(u, cmd)
  ELSE IF cmd = "merge_now" THEN merge_now(u)
  ELSE IF cmd = "cancel_action" THEN cancel_action(u)
  ELSE reply_only(u)

\* update_type "edited_message": update.message is None.  The usage row is
\* written and the directory made, then message.document raises
\* AttributeError; the directory stays.
handle_document(u, update_type, file_name, size_bytes) ==
  LET tempdir == ensure_tempdir(nextWs)
      fname == IF file_name = <<>> THEN default_name ELSE file_name
      dest == [dir |-> tempdir, name |-> fname]
      made == workspaces \cup {tempdir}
      action_info == dict_get(USER_ACTIONS, u)
  IN IF update_type = "edited_message"
     THEN /\ usage' = log_usage(usage, u)
          /\ workspaces' = made
          /\ nextWs' = tempdir
          /\ cleanups' = <<>>
          /\ lastEvent' = [replied(u, "edited_document", "none", "none", <<>>, NoDest, 0,
                                  "none")
                             EXCEPT !.propagated = "AttributeError"]
          /\ UNCHANGED <<USER_ACTIONS, USER_TEMP, unconsumed, accepted>>
     ELSE
     /\ usage' = log_usage(usage, u)
     /\ IF too_large(size_bytes)
        THEN /\ workspaces' = cleanup_dir(made, tempdir)
             /\ cleanups' = <<tempdir>>
             /\ nextWs' = tempdir
             /\ lastEvent' = replied(u, "document", "none", "none", <<>>, dest, size_bytes,
                                   "File too large")
             /\ UNCHANGED <<USER_ACTIONS, USER_TEMP, unconsumed, accepted>>
        ELSE IF action_info = NoSession
        THEN /\ Len(stored_of(USER_TEMP, u)) < MaxStored
             /\ USER_TEMP' = dict_set(USER_TEMP, u,
                    Append(stored_of(USER_TEMP, u), [path |-> dest, dir |-> tempdir]))
             /\ workspaces' = made
             /\ cleanups' = <<>>
             /\ nextWs' = tempdir
             /\ lastEvent' = replied(u, "document", "none", "none", <<>>, dest, size_bytes,
                                   "choose first")
             /\ UNCHANGED <<USER_ACTIONS, unconsumed, accepted>>
        ELSE IF action_info.action = "merge"
        THEN IF ~has_ext(dest, ext_pdf)
             THEN /\ workspaces' = cleanup_dir(made, tempdir)
                  /\ cleanups' = <<tempdir>>
                  /\ nextWs' = tempdir
                  /\ lastEvent' = replied(u, "document", "none", "merge", <<>>, dest,
                                        size_bytes, "Only PDF")
                  /\ UNCHANGED <<USER_ACTIONS, USER_TEMP, unconsumed, accepted>>
             ELSE /\ USER_ACTIONS' = dict_set(USER_ACTIONS, u,
                         [action |-> action_info.action,
                          files |-> merge_append(files_of(action_info), dest)])
                  /\ workspaces' = made
                  /\ cleanups' = <<>>
                  /\ nextWs' = tempdir
                  /\ lastEvent' = replied(u, "document", "none", "merge", <<>>, dest,
                                        size_bytes, "PDF saved")
                  /\ accepted' = [accepted EXCEPT ![u] = Append(@, dest)]
                  /\ UNCHANGED <<USER_TEMP, unconsumed>>
        ELSE \E outcome \in Outcomes :
             LET r == document_try(action_info.action, dest, made, tempdir, outcome)
             IN /\ USER_ACTIONS' = dict_pop(USER_ACTIONS, u)
                /\ workspaces' = cleanup_dir(r.ws, tempdir)
                /\ cleanups' = Append(r.cleaned, tempdir)
                /\ nextWs' = r.next
                /\ unconsumed' = count_call(u, r)
                /\ lastEvent' = attempted(u, "document", "none", action_info.action, dest,
                                          size_bytes, r)
                /\ UNCHANGED <<USER_TEMP, accepted>>

\* size_bytes is the size of the downloaded photo; handle_photo never reads
\* it.  For an edited message update.message.photo raises AttributeError
\* after the usage row was written and the directory made.
handle_photo(u, update_type, size_bytes) ==
  LET tempdir == ensure_tempdir(nextWs)
      dest == [dir |-> tempdir, name |-> photo_jpg]
      made == workspaces \cup {tempdir}
      action_info == dict_get(USER_ACTIONS, u)
  IN IF update_type = "edited_message"
     THEN /\ usage' = log_usage(usage, u)
          /\ workspaces' = made
          /\ nextWs' = tempdir
          /\ cleanups' = <<>>
          /\ lastEvent' = [replied(u, "edited_photo", "none", "none", <<>>, NoDest, 0,
                                  "none")
                             EXCEPT !.propagated = "AttributeError"]
          /\ UNCHANGED <<USER_ACTIONS, USER_TEMP, unconsumed, accepted>>
     ELSE
     /\ usage' = log_usage(usage, u)
     /\ UNCHANGED <<USER_TEMP, accepted>>
     /\ IF action_info = NoSession
        THEN /\ workspaces' = cleanup_dir(made, tempdir)
             /\ cleanups' = <<tempdir>>
             /\ nextWs' = tempdir
             /\ lastEvent' = replied(u, "photo", "none", "none", <<>>, dest, size_bytes,
                                   "choose first")
             /\ UNCHANGED <<USER_ACTIONS, unconsumed>>
        ELSE \E outcome \in Outcomes :
             LET r == photo_try(action_info.action, dest, made, tempdir, outcome)
             IN /\ USER_ACTIONS' = dict_pop(USER_ACTIONS, u)
                /\ workspaces' = cleanup_dir(r.ws, tempdir)
                /\ cleanups' = Append(r.cleaned, tempdir)
                /\ nextWs' = r.next
                /\ unconsumed' = count_call(u, r)
                /\ lastEvent' = attempted(u, "photo", "none", action_info.action, dest,
                                          size_bytes, r)

\* Spec runs every handler from its first statement to its return in one
\* step, so no handler is ever found inside an engine call.  The updates
\* that make a directory are delivered while fewer than MaxWs directories
\* have been made.
Next ==
  \/ \E u \in Driven, update_type \in UpdateTypes, kind \in Intents :
        intent_command(u, update_type, kind) /\ UNCHANGED <<inflight, boot>>
  \/ \E u \in Driven, t \in Phrases :
        text_command_router(u, t) /\ UNCHANGED <<inflight, boot>>
  \/ \E u \in Driven, cmd \in MenuCmds :
        menu_callback(u, cmd) /\ nextWs' <= MaxWs /\ UNCHANGED <<inflight, boot>>
  \/ \E u \in Driven, file_name \in FileNames, size_bytes \in Sizes :
        /\ nextWs < MaxWs
        /\ handle_document(u, "message", file_name, size_bytes)
        /\ nextWs' <= MaxWs
        /\ UNCHANGED <<inflight, boot>>
  \/ \E u \in Driven, size_bytes \in Sizes :
        /\ nextWs < MaxWs
        /\ handle_photo(u, "message", size_bytes)
        /\ nextWs' <= MaxWs
        /\ UNCHANGED <<inflight, boot>>
  \/ \E u \in Driven :
        /\ nextWs < MaxWs
        /\ handle_document(u, "edited_message", a_pdf, 52428800)
        /\ UNCHANGED <<inflight, boot>>
  \/ \E u \in Driven :
        /\ nextWs < MaxWs
        /\ handle_photo(u, "edited_message", 52428800)
        /\ UNCHANGED <<inflight, boot>>
  \/ \E u \in Driven : status(u) /\ UNCHANGED <<inflight, boot>>

Spec == Init /\ [][Next]_vars

\* ------------------------------------------------------ SpecValidate
\* One declaration followed by one document: every intent meets every name
\* of ValidateNames at both sizes.
validate_declare(u, kind) ==
  /\ lastEvent.event = "none"
  /\ intent_command(u, "message", kind)
  /\ UNCHANGED <<inflight, boot>>

validate_upload(u, file_name, size_bytes) ==
  /\ lastEvent.event = "declare"
  /\ handle_document(u, "message", file_name, size_bytes)
  /\ UNCHANGED <<inflight, boot>>

NextValidate ==
  \/ \E u \in Driven, kind \in Intents : validate_declare(u, kind)
  \/ \E u \in Driven, file_name \in ValidateNames, size_bytes \in Sizes :
        validate_upload(u, file_name, size_bytes)

SpecValidate == Init /\ [][NextValidate]_vars

\* ---------------------------------------------------------- SpecMain
\* main from the retry loop on: the initialize attempts, then the handlers
\* of commands, menu buttons and status once polling has started.
InitMain ==
  /\ NoUpdatesYet
  /\ boot = [phase |-> "initializing", retries |-> 0, slept |-> <<>>]

\* how an initialize attempt ends
InitResults == {"ok", "raises"}

RECURSIVE pow2(_)
\* 2 ** n
pow2(n) == IF n <= 0 THEN 1 ELSE 2 * pow2(n - 1)

init_wait_linear(retries) == INIT_BACKOFF * retries

\* wait = INIT_BACKOFF * (2 ** (retries - 1))
init_wait(retries) == INIT_BACKOFF * pow2(retries - 1)

\* one pass of the while loop: app.initialize() returns and the loop is
\* left, or it raises, the failure is counted, and main gives up or sleeps
initialize(result) ==
  LET retries == boot.retries + 1
  IN /\ boot.phase = "initializing"
     /\ boot' = IF result = "ok"
                THEN [boot EXCEPT !.phase = "polling"]
                ELSE IF retries >= MAX_INIT_RETRIES
                THEN [boot EXCEPT !.phase = "fatal", !.retries = retries]
                ELSE [boot EXCEPT !.retries = retries,
                                  !.slept = Append(@, init_wait(retries))]
     /\ UNCHANGED <<USER_ACTIONS, USER_TEMP, workspaces, nextWs, usage,
                    unconsumed, accepted, lastEvent, cleanups, inflight>>

\* app.run_polling() is reached only after the loop was left by break
polling == boot.phase = "polling"

NextMain ==
  \/ \E result \in InitResults : initialize(result)
  \/ \E u \in Driven, kind \in Intents :
        polling /\ intent_command(u, "message", kind) /\ UNCHANGED <<inflight, boot>>
  \/ \E u \in Driven, cmd \in MenuCmds :
        polling /\ menu_callback(u, cmd) /\ UNCHANGED <<inflight, boot>>
  \/ \E u \in Driven :
        polling /\ status(u) /\ UNCHANGED <<inflight, boot>>

SpecMain == InitMain /\ [][NextMain]_vars

\* An initialize attempt comes back: it returns or it raises.
SpecMainFair == SpecMain /\ WF_vars(\E result \in InitResults : initialize(result))

\* ---------------------------------------------------------- SpecPair
\* Both users send updates, handled from start to end in one step: they
\* declare merge or compress, send PDF documents while a session is pending,
\* send photos, trigger the merge, cancel.  Four directories let one user
\* merge two files while the other user holds an accumulated file.  A
\* document sent with no session pending reads and writes no session (it is
\* stored in USER_TEMP); those uploads are the ones of Spec.
PairIntents == {"merge", "compress"}
PairNames == {a_pdf}
PairSizes == {52428800}
PairCmds == {"merge_now", "cancel_action"}

NextPair ==
  \/ \E u \in Users, kind \in PairIntents :
        intent_command(u, "message", kind) /\ UNCHANGED <<inflight, boot>>
  \/ \E u \in Users, cmd \in PairCmds :
        menu_callback(u, cmd) /\ nextWs' <= MaxPairWs /\ UNCHANGED <<inflight, boot>>
  \/ \E u \in Users, file_name \in PairNames, size_bytes \in PairSizes :
        /\ nextWs < MaxPairWs
        /\ u \in DOMAIN USER_ACTIONS
        /\ handle_document(u, "message", file_name, size_bytes)
        /\ nextWs' <= MaxPairWs
        /\ UNCHANGED <<inflight, boot>>
  \/ \E u \in Users, size_bytes \in PairSizes :
        /\ nextWs < MaxPairWs
        /\ handle_photo(u, "message", size_bytes)
        /\ nextWs' <= MaxPairWs
        /\ UNCHANGED <<inflight, boot>>

SpecPair == Init /\ [][NextPair]_vars

\* ---------------------------------------------------------- SpecLoop
\* The same handlers with the conversion of a document in two steps: the
\* handler runs up to the engine call (begin_document), and the engine call
\* comes back and the handler runs to its end (engine_returns).  Both users
\* declare intents, cancel, and send documents that get as far as the engine
\* call; the documents that are turned away before it are those of Spec.
MaxLoopWs == 4

LoopIntents == {"docx_to_pdf", "compress"}
LoopNames == {a_pdf, c_docx}

\* what the soffice child process does
SubprocessRuns ==
  {"exit0_output", "exit0_no_output", "exit_nonzero", "never_exits", "no_soffice"}

docx_to_pdf_libreoffice_no_timeout(run) ==
  CASE run = "exit0_output"    -> "ok"
    [] run = "exit0_no_output" -> "engine_raises"
    [] run = "exit_nonzero"    -> "engine_raises"
    [] run = "never_exits"     -> "hangs"
    [] run = "no_soffice"      -> "engine_raises"

\* how docx_to_pdf_libreoffice ends: it returns if soffice exits with 0 and
\* left the PDF; it raises RuntimeError if the PDF is not there,
\* CalledProcessError on a non-zero exit (check=True), TimeoutExpired when
\* soffice is still running after timeout seconds, FileNotFoundError when
\* there is no soffice
docx_to_pdf_libreoffice(run) ==
  CASE run = "exit0_output"    -> "ok"
    [] run = "exit0_no_output" -> "engine_raises"
    [] run = "exit_nonzero"    -> "engine_raises"
    [] run = "never_exits"     -> "engine_raises"
    [] run = "no_soffice"      -> "engine_raises"

\* the courses a conversion attempt of the given intent can take
EngineRuns(act) ==
  IF act = "docx_to_pdf" THEN SubprocessRuns \cup {"send_raises"} ELSE Outcomes

run_outcome_exit_status(act, run) ==
  IF act = "docx_to_pdf" /\ run \in SubprocessRuns
  THEN IF run \in {"exit0_output", "exit0_no_output"} THEN "ok"
       ELSE docx_to_pdf_libreoffice(run)
  ELSE run

\* the outcome of the try block for a course
run_outcome(act, run) ==
  IF act = "docx_to_pdf" /\ run \in SubprocessRuns
  THEN docx_to_pdf_libreoffice(run)
  ELSE run

loop_free_always == TRUE

\* The application processes one update at a time (no concurrent updates),
\* and the engines are plain calls made inside the handler's coroutine, so
\* the next update is taken up only after the handler has returned.
loop_free == inflight = {}

\* the document gets as far as the engine call
reaches_engine(u, file_name, size_bytes) ==
  LET fname == IF file_name = <<>> THEN default_name ELSE file_name
      dest == [dir |-> ensure_tempdir(nextWs), name |-> fname]
      action_info == dict_get(USER_ACTIONS, u)
  IN /\ ~too_large(size_bytes)
     /\ action_info.action \in SingleIntents
     /\ document_accepts(action_info.action, dest)

\* handle_document from its first statement to the engine call
begin_document(u, file_name, size_bytes) ==
  LET tempdir == ensure_tempdir(nextWs)
      fname == IF file_name = <<>> THEN default_name ELSE file_name
      dest == [dir |-> tempdir, name |-> fname]
      out_dir == ensure_tempdir(tempdir)
      act == dict_get(USER_ACTIONS, u).action
  IN /\ loop_free
     /\ reaches_engine(u, file_name, size_bytes)
     /\ out_dir <= MaxLoopWs
     /\ usage' = log_usage(usage, u)
     /\ workspaces' = workspaces \cup {tempdir, out_dir}
     /\ nextWs' = out_dir
     /\ \E run \in EngineRuns(act) :
           inflight' = inflight \cup
              {[user |-> u, act |-> act, dest |-> dest, size |-> size_bytes,
                out_dir |-> out_dir, run |-> run]}
     /\ lastEvent' = replied(u, "document", "none", act, <<>>, dest, size_bytes,
                             "Converting")
     /\ cleanups' = <<>>
     /\ UNCHANGED <<USER_ACTIONS, USER_TEMP, unconsumed, accepted, boot>>

\* the engine call of handler f is over: the rest of the try block, the
\* except clause and the finally clause of handle_document
engine_returns(f) ==
  LET outcome == run_outcome(f.act, f.run)
      r == document_try(f.act, f.dest, workspaces, f.out_dir - 1, outcome)
  IN /\ f \in inflight
     /\ outcome # "hangs"
     /\ inflight' = inflight \ {f}
     /\ USER_ACTIONS' = dict_pop(USER_ACTIONS, f.user)
     /\ workspaces' = cleanup_dir(r.ws, f.dest.dir)
     /\ cleanups' = Append(r.cleaned, f.dest.dir)
     /\ unconsumed' = count_call(f.user, r)
     /\ lastEvent' = [attempted(f.user, "document", "none", f.act, f.dest, f.size, r)
                        EXCEPT !.run = f.run]
     /\ UNCHANGED <<USER_TEMP, nextWs, usage, accepted, boot>>

loop_declare(u, kind) ==
  /\ loop_free
  /\ intent_command(u, "message", kind)
  /\ UNCHANGED <<inflight, boot>>

loop_cancel(u) ==
  /\ loop_free
  /\ menu_callback(u, "cancel_action")
  /\ UNCHANGED <<inflight, boot>>

NextLoop ==
  \/ \E u \in Users, kind \in LoopIntents : loop_declare(u, kind)
  \/ \E u \in Users : loop_cancel(u)
  \/ \E u \in Users, file_name \in LoopNames, size_bytes \in Sizes :
        begin_document(u, file_name, size_bytes)
  \/ \E f \in inflight : engine_returns(f)

SpecLoop == Init /\ [][NextLoop]_vars

\* An engine call that can come back does come back.
SpecLoopFair == SpecLoop /\ WF_vars(\E f \in inflight : engine_returns(f))


\* ===================================================================
\* Properties
\* ===================================================================

\* the update just handled ended an operation of its user: a single-file
\* conversion delivered or failed, a single-file upload failed validation,
\* a merge ran (delivered or failed), or the user cancelled
TerminalOutcome(e) ==
  \/ e.event \in {"document", "photo"} /\ e.delivered
  \/ e.event \in {"document", "photo"} /\ e.notice = "Conversion failed"
  \/ e.event = "document" /\ e.pending \in SingleIntents /\ e.notice = "Please upload"
  \/ e.event = "merge_now" /\ e.call # NoCall
  \/ e.event = "cancel"

\* C1: once an operation of a user has reached a terminal outcome (conversion
\* succeeded or failed, upload rejected by validation, merge succeeded or
\* failed, cancel), USER_ACTIONS holds no entry for that user.
C1_NoSessionAfterTerminal ==
  \A u \in Users :
    (lastEvent.user = u /\ TerminalOutcome(lastEvent)) => u \notin DOMAIN USER_ACTIONS

C1_Witness ==
  /\ lastEvent.event = "document"
  /\ lastEvent.notice = "Conversion failed"
  /\ lastEvent.user \notin DOMAIN USER_ACTIONS

\* the operation, in the vocabulary of the intents, that an engine call performs
OperationOf(call) ==
  CASE call.fn = "pdf_to_word"                -> "pdf_to_word"
    [] call.fn = "docx_to_pdf_libreoffice"    -> "docx_to_pdf"
    [] call.fn = "pdf_to_images"              -> "pdf_to_jpg"
    [] call.fn = "images_to_pdf"              -> "jpg_to_pdf"
    [] call.fn = "convert_image_format" /\ call.fmt = "JPEG" -> "png_to_jpg"
    [] call.fn = "convert_image_format" /\ call.fmt = "PNG"  -> "jpg_to_png"
    [] call.fn = "compress_pdf_basic"         -> "compress"
    [] call.fn = "merge_pdfs"                 -> "merge"
    [] OTHER                                  -> "unknown"

\* C2: a user never has more engine invocations than intent declarations;
\* every invocation removes the session of its user; the operation invoked
\* is the intent that was pending when the upload or the merge trigger
\* arrived; and a result is delivered only by an invocation.
C2_EngineOncePerIntent ==
  /\ \A u \in Users : unconsumed[u] >= 0
  /\ lastEvent.call # NoCall =>
       /\ lastEvent.user \notin DOMAIN USER_ACTIONS
       /\ lastEvent.pending \in Intents
       /\ OperationOf(lastEvent.call) = lastEvent.pending
  /\ lastEvent.delivered => lastEvent.call # NoCall

C2_Witness ==
  /\ lastEvent.event = "document"
  /\ lastEvent.pending = "png_to_jpg"
  /\ lastEvent.call # NoCall
  /\ lastEvent.delivered

\* C3: when the handling of an upload for a single-file intent has ended,
\* the upload directory and the output directory (if one was made) are gone,
\* also when the engine or the delivery raised.
C3_UploadWorkspacesDestroyed ==
  (lastEvent.event \in {"document", "photo"} /\ lastEvent.pending \in SingleIntents) =>
     /\ lastEvent.dest.dir \notin workspaces
     /\ lastEvent.out_dir # 0 => lastEvent.out_dir \notin workspaces

\* C4: after an intent declaration that overwrote a merge session, no
\* directory of a file of the discarded merge list exists.
C4_DeclareFreesMergeFiles ==
  lastEvent.event = "declare" =>
     \A i \in 1..Len(lastEvent.dropped) : lastEvent.dropped[i].dir \notin workspaces

\* C5: after a cancel, the directories of the files the cancelled session
\* had accumulated are gone and the user has no session.
C5_CancelFreesWorkspaces ==
  lastEvent.event = "cancel" =>
     /\ \A i \in 1..Len(lastEvent.dropped) : lastEvent.dropped[i].dir \notin workspaces
     /\ lastEvent.user \notin DOMAIN USER_ACTIONS

\* C6: after a document or photo that arrived while its user had no pending
\* intent, the directory of the upload is gone, the file is in no per-user
\* store, and the user has no session.
C6_IdleUploadNotRetained ==
  (lastEvent.event \in {"document", "photo"} /\ lastEvent.notice = "choose first") =>
     /\ lastEvent.dest.dir \notin workspaces
     /\ \A u \in DOMAIN USER_TEMP : \A i \in 1..Len(USER_TEMP[u]) :
           USER_TEMP[u][i].path # lastEvent.dest
     /\ lastEvent.user \notin DOMAIN USER_ACTIONS

\* the step is the handling of an update of kind event sent by u
Handles(u, event) == lastEvent'.user = u /\ lastEvent'.event = event

\* u has a merge session
Merging(u) == u \in DOMAIN USER_ACTIONS /\ USER_ACTIONS[u].action = "merge"

\* C7: a merge trigger that finds a merge session with fewer than two files
\* is answered with the insufficient-files notice and changes nothing: the
\* session, the directories and the number of engine calls stay as they were.
C7_MergeTooFewUnchanged ==
  [][\A u \in Users :
       (Merging(u) /\ Len(USER_ACTIONS[u].files) < 2 /\ Handles(u, "merge_now")) =>
          /\ lastEvent'.notice = "at least two"
          /\ lastEvent'.call = NoCall
          /\ UNCHANGED <<USER_ACTIONS, workspaces, nextWs, unconsumed>>]_vars

C7_Witness ==
  /\ lastEvent.event = "merge_now"
  /\ lastEvent.notice = "at least two"
  /\ lastEvent.user \in DOMAIN USER_ACTIONS
  /\ Len(USER_ACTIONS[lastEvent.user].files) = 1

\* the name ends in .pdf, whatever the case of its letters
IsPdfName(n) ==
  /\ Len(n) >= 4
  /\ n[Len(n) - 3] = "."
  /\ n[Len(n) - 2] \in {"p", "P"}
  /\ n[Len(n) - 1] \in {"d", "D"}
  /\ n[Len(n)] \in {"f", "F"}

\* the merge upload of this step was turned away: the session and the set of
\* directories are as before (the directory of the upload was made and freed)
MergeUploadRejected ==
  /\ USER_ACTIONS' = USER_ACTIONS
  /\ workspaces' = workspaces
  /\ lastEvent'.dest.dir \notin workspaces'

\* the merge upload of this step was appended to the list of u and its
\* directory exists
MergeUploadAppended(u) ==
  /\ USER_ACTIONS' = [USER_ACTIONS EXCEPT ![u] =
        [action |-> "merge", files |-> Append(USER_ACTIONS[u].files, lastEvent'.dest)]]
  /\ workspaces' = workspaces \cup {lastEvent'.dest.dir}
  /\ lastEvent'.dest.dir \notin workspaces

\* C8 as stated: during a merge session a document not named *.pdf is
\* rejected leaving the session as it was, and every document named *.pdf is
\* appended and its directory kept.
C8_Original ==
  [][\A u \in Users :
       (Merging(u) /\ Handles(u, "document")) =>
          IF IsPdfName(lastEvent'.dest.name)
          THEN MergeUploadAppended(u)
          ELSE MergeUploadRejected]_vars

\* C8 (amended): during a merge session a document not named *.pdf is
\* rejected leaving the session as it was; a document named *.pdf is appended
\* and its directory kept if it is at most 50 MB, and is rejected leaving the
\* session as it was if it is larger.
C8_MergeUploadValidation ==
  [][\A u \in Users :
       (Merging(u) /\ Handles(u, "document")) =>
          IF IsPdfName(lastEvent'.dest.name) /\ lastEvent'.size <= 50 * 1024 * 1024
          THEN MergeUploadAppended(u)
          ELSE MergeUploadRejected]_vars

C8_Witness ==
  /\ lastEvent.event = "document"
  /\ lastEvent.notice = "PDF saved"
  /\ lastEvent.dest.name = B_PDF
  /\ Len(USER_ACTIONS[lastEvent.user].files) = 2

\* the directories of the files are in the order in which they were made
InUploadOrder(files) ==
  \A i, j \in 1..Len(files) : i < j => files[i].dir < files[j].dir

\* C9: the merge list of a user is the sequence of uploads answered
\* "PDF saved" since the user's last declaration, in upload order, and the
\* merge engine is called with exactly that sequence.
C9_MergeOrder ==
  \A u \in Users :
    /\ Merging(u) =>
         /\ USER_ACTIONS[u].files = accepted[u]
         /\ InUploadOrder(USER_ACTIONS[u].files)
    /\ (lastEvent.user = u /\ lastEvent.call # NoCall /\ lastEvent.call.fn = "merge_pdfs") =>
         /\ lastEvent.call.inputs = accepted[u]
         /\ InUploadOrder(lastEvent.call.inputs)

C9_Witness ==
  /\ lastEvent.call # NoCall
  /\ lastEvent.call.fn = "merge_pdfs"
  /\ Len(lastEvent.call.inputs) = 2
  /\ lastEvent.call.inputs[1].name # lastEvent.call.inputs[2].name
  /\ lastEvent.delivered

\* C10: after a merge trigger that found at least two files, whether the
\* merge was delivered or failed, the directory of every accumulated file and
\* the output directory are gone and the user has no session.
C10_MergeCleansUp ==
  (lastEvent.event = "merge_now" /\ lastEvent.call # NoCall) =>
     /\ Len(lastEvent.call.inputs) >= 2
     /\ \A i \in 1..Len(lastEvent.call.inputs) :
           lastEvent.call.inputs[i].dir \notin workspaces
     /\ lastEvent.out_dir # 0
     /\ lastEvent.out_dir \notin workspaces
     /\ lastEvent.user \notin DOMAIN USER_ACTIONS

C10_Witness ==
  /\ lastEvent.event = "merge_now"
  /\ lastEvent.notice = "Merge failed"
  /\ Len(lastEvent.call.inputs) = 2

\* ------------------------------------------------------------------ C11
\* number of cleanup_dir calls the most recent handler made on directory d
Destroyed(d) == Cardinality({i \in DOMAIN cleanups : cleanups[i] = d})

\* C11: no workspace is destroyed more than once: a handler calls destroy at
\* most once on any directory, and on the path where a single-file upload
\* fails the extension check it calls destroy exactly once on the upload's
\* directory.
C11_DestroyedOnce ==
  /\ \A d \in 1..nextWs : Destroyed(d) <= 1
  /\ (lastEvent.notice = "Please upload" => Destroyed(lastEvent.dest.dir) = 1)

\* ------------------------------------------------------------------ C12
\* the rule table of the file validator
RuleTable(intent) ==
  CASE intent \in {"pdf_to_word", "pdf_to_jpg", "compress"} -> {ext_pdf}
    [] intent = "docx_to_pdf" -> {ext_docx, ext_doc}
    [] intent \in {"jpg_to_pdf", "png_to_jpg", "jpg_to_png"} ->
          {ext_jpg, ext_jpeg, ext_png, ext_bmp, ext_tiff}
    [] intent = "merge" -> {ext_pdf}
    [] OTHER -> {}

\* the part of a name from its last "." on; empty if it has none
Suffix(name) ==
  LET dots == {i \in DOMAIN name : name[i] = "."}
  IN IF dots = {} THEN <<>>
     ELSE SubSeq(name, CHOOSE i \in dots : \A j \in dots : j <= i, Len(name))

SameLetter(c, d) ==
  \/ c = d
  \/ \E i \in DOMAIN UpperChars : {c, d} = {UpperChars[i], LowerChars[i]}

\* case-insensitive equality of a suffix and an extension
MatchesExt(suffix, ext) ==
  /\ Len(suffix) = Len(ext)
  /\ \A i \in DOMAIN ext : SameLetter(suffix[i], ext[i])

\* the most recent handler validated a document against a pending intent
DocumentValidated ==
  /\ lastEvent.event = "document"
  /\ lastEvent.pending # "none"
  /\ lastEvent.notice # "File too large"

\* the decision on the document of this step, sent by u under the intent
\* that was pending, is the one of the rule table: accepted exactly if the
\* suffix of its name matches, ignoring case, an extension listed for the
\* intent; otherwise rejected with a validation notice and no engine call
DecidedByRuleTable(u) ==
  LET ok == \E ext \in RuleTable(USER_ACTIONS[u].action) :
               MatchesExt(Suffix(lastEvent'.dest.name), ext)
  IN /\ ok <=> lastEvent'.notice \in {"converted", "Conversion failed", "PDF saved"}
     /\ ~ok <=> lastEvent'.notice \in {"Please upload", "Only PDF"}
     /\ ~ok => lastEvent'.call = NoCall

\* C12 as stated: for every document upload and every pending intent, the
\* decision of the dispatcher is the one of the rule table applied to the
\* suffix of the file name, and a rejected upload causes no engine call.
C12_Original ==
  [][\A u \in Users :
       (Handles(u, "document") /\ u \in DOMAIN USER_ACTIONS) =>
          DecidedByRuleTable(u)]_vars

\* C12 (amended): for every document upload of at most 50 MB and every
\* pending intent, the decision of the dispatcher is the one of the rule
\* table applied to the suffix of the file name, and a rejected upload
\* causes no engine call; a document of more than 50 MB is turned away for
\* its size whatever its name, with no engine call.
C12_ValidationRuleTable ==
  [][\A u \in Users :
       (Handles(u, "document") /\ u \in DOMAIN USER_ACTIONS) =>
          IF lastEvent'.size > 52428800
          THEN lastEvent'.notice = "File too large" /\ lastEvent'.call = NoCall
          ELSE DecidedByRuleTable(u)]_vars

\* an upper-case .TIFF name was accepted for jpg_to_pdf and converted
C12_Witness ==
  /\ DocumentValidated
  /\ lastEvent.pending = "jpg_to_pdf"
  /\ lastEvent.dest.name = I_TIFF
  /\ lastEvent.call # NoCall

\* ------------------------------------------------------------------ C13
\* C13: an intent declaration succeeds from any state (it is enabled for
\* every kind whenever the exploration bound on declarations allows one more),
\* and it leaves the user with one session whose intent is the declared kind;
\* a declared merge session has an empty file list, whatever the previous
\* session held, and a session of another kind has no file list.
C13_DeclareReplacesSession ==
  /\ \A u \in Driven, kind \in Intents :
        unconsumed[u] < MaxDeclare =>
           \A update_type \in UpdateTypes : ENABLED intent_command(u, update_type, kind)
  /\ lastEvent.event = "declare" =>
        LET session == dict_get(USER_ACTIONS, lastEvent.user)
        IN /\ lastEvent.user \in DOMAIN USER_ACTIONS
           /\ session.action = lastEvent.cmd
           /\ IF lastEvent.cmd = "merge"
              THEN session = [action |-> "merge", files |-> <<>>]
              ELSE session = [action |-> lastEvent.cmd]

\* merge was declared over a merge session that held files
C13_Witness ==
  /\ lastEvent.event = "declare"
  /\ lastEvent.cmd = "merge"
  /\ lastEvent.dropped # <<>>

\* ------------------------------------------------------------------ C14
\* what user u holds: the session and the stored uploads
Held(u) == <<dict_get(USER_ACTIONS, u), stored_of(USER_TEMP, u)>>

\* C14: a document or photo of more than 50 MB (52428800 bytes) is answered
\* with the size-limit message and nothing else happens: no engine is invoked,
\* the upload's workspace is destroyed, and the user's session and stored
\* uploads are unchanged; an upload of at most 50 MB is not answered with the
\* size-limit message.
C14_OversizeRejected ==
  [][\A u \in Users :
       (Handles(u, "document") \/ Handles(u, "photo")) =>
         IF lastEvent'.size > 52428800
         THEN /\ lastEvent'.notice = "File too large"
              /\ lastEvent'.call = NoCall
              /\ lastEvent'.dest.dir \notin workspaces'
              /\ Held(u)' = Held(u)
         ELSE lastEvent'.notice # "File too large"]_vars

\* ------------------------------------------------------------------ C16
IsUpload(u) == Handles(u, "document") \/ Handles(u, "photo")

\* C16: every document or photo upload of a user appends exactly one usage
\* record of that user, whatever its outcome, and no other event appends
\* one; the count that status reports to a user is the number of that
\* user's records.
C16_UsagePerUpload ==
  [][/\ \A u \in Users :
          usage'[u] = usage[u] + (IF IsUpload(u) THEN 1 ELSE 0)
     /\ lastEvent'.event = "status" =>
          lastEvent'.count = usage[lastEvent'.user]]_vars

\* ------------------------------------------------------------------ C17
\* C17: a photo received while the pending intent is merge is rejected like
\* a non-PDF merge upload: the photo's workspace is freed, no other workspace
\* is touched, and the merge session stays with the same file list.
C17_PhotoKeepsMergeSession ==
  [][\A u \in Users :
       (Handles(u, "photo") /\ Merging(u)) =>
          /\ lastEvent'.dest.dir \notin workspaces'
          /\ workspaces' = workspaces
          /\ u \in DOMAIN USER_ACTIONS'
          /\ USER_ACTIONS'[u] = USER_ACTIONS[u]]_vars

\* ------------------------------------------------------------------ C19
\* the most recent handler invoked an engine and delivered no result
ConversionFailed == lastEvent.call # NoCall /\ ~lastEvent.delivered

\* C19: when a conversion (single file or merge) fails, the handler that
\* invoked the engine catches the failure and sends the failure notice; no
\* exception leaves the handler, the session is closed, and the next update
\* of the user can be handled.
C19_EngineFailureCaught ==
  ConversionFailed =>
    /\ lastEvent.propagated = "none"
    /\ lastEvent.notice =
          (IF lastEvent.event = "merge_now" THEN "Merge failed" ELSE "Conversion failed")
    /\ lastEvent.user \notin DOMAIN USER_ACTIONS
    /\ ENABLED status(lastEvent.user)
    /\ ENABLED menu_callback(lastEvent.user, "cancel_action")

\* a failed merge was reported
C19_Witness ==
  /\ ConversionFailed
  /\ lastEvent.event = "merge_now"
  /\ lastEvent.notice = "Merge failed"

\* ------------------------------------------------------------------ C15
\* a handler of user u is inside an engine call
Processing(u) == \E f \in inflight : f.user = u

\* an update of user b can be dispatched now
Dispatchable(b) ==
  \/ \E kind \in LoopIntents : ENABLED loop_declare(b, kind)
  \/ ENABLED loop_cancel(b)
  \/ \E file_name \in LoopNames, size_bytes \in Sizes :
        ENABLED begin_document(b, file_name, size_bytes)

\* C15: while an engine call for one user is in progress, an update of
\* another user can still be dispatched.
C15_OtherUsersDispatched ==
  \A a \in Users : Processing(a) => \E b \in Users \ {a} : Dispatchable(b)

\* ------------------------------------------------------------------ C18
\* the handlers of user u that are inside an engine call
InFlightOf(u) == {f \in inflight : f.user = u}

\* C18: the operations of one user are serialized: at most one upload of a
\* user is being converted at any time, no second upload of that user can
\* start while it is, and the conversions a user has started never outnumber
\* the intents that user has declared.
C18_UserOperationsSerialized ==
  \A u \in Users :
    /\ Cardinality(InFlightOf(u)) <= 1
    /\ unconsumed[u] - Cardinality(InFlightOf(u)) >= 0
    /\ Processing(u) =>
          \A file_name \in LoopNames, size_bytes \in Sizes :
             ~ENABLED begin_document(u, file_name, size_bytes)

\* an upload is being converted while the intent it read is still stored
C18_Witness ==
  \E f \in inflight :
    /\ f.user \in DOMAIN USER_ACTIONS
    /\ USER_ACTIONS[f.user].action = f.act

\* ------------------------------------------------------------------ C20
\* the conversion of user u is over: its result or its failure was reported
\* and the user has no session
Finished(u) ==
  /\ ~Processing(u)
  /\ lastEvent.user = u
  /\ lastEvent.notice \in {"converted", "Conversion failed"}
  /\ u \notin DOMAIN USER_ACTIONS

\* C20: every upload accepted for a single-file intent leaves Processing:
\* whether the engine succeeds, fails, or soffice is still running when its
\* time bound expires, the user gets the result or the failure notice and is
\* idle again.
C20_LeavesProcessing ==
  \A u \in Users : Processing(u) ~> Finished(u)

\* a docx_to_pdf conversion came back with a failure and was reported
C20_Witness ==
  /\ lastEvent.pending = "docx_to_pdf"
  /\ lastEvent.notice = "Conversion failed"
  /\ lastEvent.call # NoCall
  /\ inflight = {}

\* ------------------------------------------------------------------ C21
\* C21: an office rendering whose renderer exits with status zero but leaves
\* no file at the expected path ends as a failure: the failure notice is
\* sent, nothing is delivered, and the session is removed.
C21_MissingOutputFails ==
  lastEvent.run = "exit0_no_output" =>
    /\ lastEvent.pending = "docx_to_pdf"
    /\ lastEvent.notice = "Conversion failed"
    /\ ~lastEvent.delivered
    /\ lastEvent.user \notin DOMAIN USER_ACTIONS

\* soffice exited with 0 without the PDF and the handler has returned
C21_Witness ==
  /\ lastEvent.run = "exit0_no_output"
  /\ lastEvent.call.fn = "docx_to_pdf_libreoffice"
  /\ inflight = {}

\* ------------------------------------------------------------------ C22
\* C22: a merge trigger of a user who has no session, or a session whose
\* intent is not merge, is answered with the no-merge-session notice and
\* changes nothing: the session (a pending single-file intent included) stays
\* as it is, no engine is invoked, and no workspace is created or destroyed.
C22_MergeNowWithoutMergeSession ==
  [][\A u \in Users :
       (Handles(u, "merge_now") /\ ~Merging(u)) =>
          /\ lastEvent'.notice = "No merge session"
          /\ lastEvent'.call = NoCall
          /\ cleanups' = <<>>
          /\ UNCHANGED <<USER_ACTIONS, USER_TEMP, workspaces, nextWs, usage,
                         unconsumed, accepted>>]_vars

\* merge_now was turned away while a single-file intent was pending, and
\* the intent is still pending
C22_Witness ==
  /\ lastEvent.event = "merge_now"
  /\ lastEvent.notice = "No merge session"
  /\ lastEvent.pending \in SingleIntents
  /\ dict_get(USER_ACTIONS, lastEvent.user).action = lastEvent.pending

\* ------------------------------------------------------------------ C23
\* the directories of the files accumulated in the session of user u
OwnedDirs(u) ==
  LET files == files_of(dict_get(USER_ACTIONS, u))
  IN {files[i].dir : i \in DOMAIN files}

\* C23: sessions of different users are independent: the handling of an
\* update of user a leaves the session entry of every other user b, b's
\* merge file list and the directories of b's accumulated files as they were.
C23_UsersIndependent ==
  [][\A a \in Users : \A b \in Users \ {a} :
       lastEvent'.user = a =>
          /\ (b \in DOMAIN USER_ACTIONS') = (b \in DOMAIN USER_ACTIONS)
          /\ dict_get(USER_ACTIONS', b) = dict_get(USER_ACTIONS, b)
          /\ \A d \in OwnedDirs(b) : (d \in workspaces') = (d \in workspaces)]_vars

\* u1 triggered a merge that reached the engine and cleaned up the
\* directories of its inputs and of its output, while u2 held a merge
\* session with an accumulated file, which is still there
C23_Witness ==
  /\ lastEvent.user = "u1"
  /\ lastEvent.event = "merge_now"
  /\ lastEvent.call # NoCall
  /\ Len(cleanups) >= 3
  /\ Merging("u2")
  /\ OwnedDirs("u2") # {}
  /\ OwnedDirs("u2") \subseteq workspaces

\* ------------------------------------------------------------------ C24
\* the waits between the attempts, in seconds
Backoff == <<2, 4, 8, 16, 32>>

\* what holds of main at every moment
RetryDiscipline ==
  /\ boot.retries <= 6
  /\ boot.slept = SubSeq(Backoff, 1, Len(boot.slept))
  /\ boot.phase = "initializing" => boot.retries < 6 /\ Len(boot.slept) = boot.retries
  /\ boot.phase = "polling" => boot.retries < 6 /\ Len(boot.slept) = boot.retries
  /\ boot.phase = "fatal" => boot.retries = 6 /\ boot.slept = Backoff
  /\ lastEvent.event # "none" => boot.phase = "polling"

\* C24: start-up initialization is attempted at most 6 times; after the
\* k-th failed attempt, k < 6, main has waited 2, 4, 8, 16, 32 seconds in
\* turn; after the 6th failed attempt it stops with a fatal error without
\* another wait; updates are handled only after an attempt has succeeded; and
\* the retry loop comes to an end.
C24_InitRetries ==
  /\ []RetryDiscipline
  /\ <>(boot.phase \in {"polling", "fatal"})

\* six attempts failed and main gave up after five waits
C24_Witness ==
  /\ boot.phase = "fatal"
  /\ boot.retries = 6
  /\ Len(boot.slept) = 5

====
